---- MODULE Spec2Model ----
(***************************************************************************)
(* A model of the ETTV API client (src/index.js): the line parser and the  *)
(* magnet builder (_convertToTorrents, _convertChunk), and the fetcher     *)
(* (_get, _getFile, getDaily, getFull) as a machine of promise and stream  *)
(* events.                                                                 *)
(*                                                                         *)
(* A JavaScript string is a sequence of one-character strings, so that     *)
(* split, join and percent-encoding are computed character by character.   *)
(* The value undefined is the one-element sequence <<"#undefined">>, which *)
(* no string of characters equals.                                         *)
(***************************************************************************)
EXTENDS Integers, Sequences, FiniteSets, TLC

VARIABLES
    baseUrl,    \* this._baseUrl
    trackers,   \* this._trackers
    op,         \* the parser method last called directly: "none" before any call
    rows,       \* the lines of the text handed to it, each a sequence of fields
    res,        \* the text handed to it
    ret,        \* the records it returned
    pc,         \* per call of getDaily/getFull: where the call is
    href,       \* per call: the endpoint of its outstanding request, "" when none
    data,       \* per call: the `data` accumulator of _get's response callback
    recv,       \* per call: the chunks gunzip has emitted so far, in order
    settledBy,  \* per call: the first 'end' or 'error' gunzip emitted, and whether
                \* another followed it
    getP,       \* per call: the promise _get returned
    fileP       \* per call: the promise _getFile returned (_get(...).then(...))

vars == <<baseUrl, trackers, op, rows, res, ret,
          pc, href, data, recv, settledBy, getP, fileP>>
convertVars == <<op, rows, res, ret>>
fetchVars == <<pc, href, data, recv, settledBy, getP, fileP>>

----------------------------------------------------------------------------
(* Bounds of the model. *)

\* The largest number of '|'-separated fields of a line handed to _convertChunk.
MaxFields == 5
\* The largest number of lines of a text handed to _convertToTorrents.
MaxLines == 3
\* The number of getDaily/getFull calls in flight on the one client.
NCalls == 2
\* The largest number of chunks the gunzip streams emit, all calls together.
MaxChunks == 2

----------------------------------------------------------------------------
(* Strings. *)

undefined == <<"#undefined">>

Alnum == {"a", "b", "c", "d", "e", "f", "g", "h", "i", "j", "k", "l", "m", "n", "o", "p", "q", "r", "s", "t", "u", "v", "w", "x", "y", "z", "A", "B", "C", "D", "E", "F", "G", "H", "I", "J", "K", "L", "M", "N", "O", "P", "Q", "R", "S", "T", "U", "V", "W", "X", "Y", "Z", "0", "1", "2", "3", "4", "5", "6", "7", "8", "9"}

\* The characters querystring.escape leaves as they are.
Unreserved == Alnum \cup {"-", "_", ".", "!", "~", "*", "'", "(", ")"}

\* The other characters of the model's alphabet; "e'" is U+00E9 and "?!" is
\* U+FFFD, the replacement character.
Reserved == {":", " ", "%", "&", "=", "/", "|", "$", "?", "\n", "e'", "?!"}

\* The percent-encoding of the UTF-8 bytes of a reserved character.
PercentCode(c) ==
    CASE c = ":"  -> <<"%", "3", "A">>
      [] c = " "  -> <<"%", "2", "0">>
      [] c = "%"  -> <<"%", "2", "5">>
      [] c = "&"  -> <<"%", "2", "6">>
      [] c = "="  -> <<"%", "3", "D">>
      [] c = "/"  -> <<"%", "2", "F">>
      [] c = "|"  -> <<"%", "7", "C">>
      [] c = "$"  -> <<"%", "2", "4">>
      [] c = "?"  -> <<"%", "3", "F">>
      [] c = "\n" -> <<"%", "0", "A">>
      [] c = "e'" -> <<"%", "C", "3", "%", "A", "9">>
      [] c = "?!" -> <<"%", "E", "F", "%", "B", "F", "%", "B", "D">>

\* The concatenation of the strings ss[lo..hi], halving the range.
RECURSIVE ConcatRange(_, _, _)
ConcatRange(ss, lo, hi) ==
    IF lo > hi THEN <<>>
    ELSE IF lo = hi THEN ss[lo]
    ELSE LET mid == (lo + hi) \div 2
         IN  ConcatRange(ss, lo, mid) \o ConcatRange(ss, mid + 1, hi)

\* The concatenation of a sequence of strings.
Concat(ss) == ConcatRange(ss, 1, Len(ss))

\* String.prototype.split(d) for a one-character separator d: the pieces
\* between the separators, so never empty: ''.split(d) is [''].
Split(s, d) ==
    LET seps == {i \in 1..Len(s) : s[i] = d}
        n == Cardinality(seps)
        pos(k) == IF k = 0 THEN 0
                  ELSE IF k = n + 1 THEN Len(s) + 1
                  ELSE CHOOSE i \in seps :
                           Cardinality({j \in seps : j < i}) = k - 1
    IN  [k \in 1..(n + 1) |-> SubSeq(s, pos(k - 1) + 1, pos(k) - 1)]

\* Array.prototype.join(d).
Join(ss, d) ==
    Concat([i \in 1..Len(ss) |-> IF i = 1 THEN ss[1] ELSE <<d>> \o ss[i]])

StartsWith(s, p) == Len(p) <= Len(s) /\ SubSeq(s, 1, Len(p)) = p

\* String.prototype.includes.
Includes(s, p) ==
    \E i \in 1..(Len(s) - Len(p) + 1) : SubSeq(s, i, i + Len(p) - 1) = p

\* The number of places of s where p occurs.
Occurrences(s, p) ==
    Cardinality({i \in 1..(Len(s) - Len(p) + 1) : SubSeq(s, i, i + Len(p) - 1) = p})

----------------------------------------------------------------------------
(* The default trackers (exports.defaultTrackers), as the source spells    *)
(* them: pre-escaped, and all but the last ending in '&'.                  *)

defaultTrackers == <<
    \* udp%3A%2F%2Ftracker.coppersurfer.tk:6969/announce&
    <<"u", "d", "p", "%", "3", "A", "%", "2", "F", "%", "2", "F", "t", "r",
    "a", "c", "k", "e", "r", ".", "c", "o", "p", "p", "e", "r", "s", "u",
    "r", "f", "e", "r", ".", "t", "k", ":", "6", "9", "6", "9", "/", "a",
    "n", "n", "o", "u", "n", "c", "e", "&">>,
    \* udp%3A%2F%2F9.rarbg.to:2710/announce&
    <<"u", "d", "p", "%", "3", "A", "%", "2", "F", "%", "2", "F", "9", ".",
    "r", "a", "r", "b", "g", ".", "t", "o", ":", "2", "7", "1", "0", "/",
    "a", "n", "n", "o", "u", "n", "c", "e", "&">>,
    \* udp%3A%2F%2F9.rarbg.me:2710/announce&
    <<"u", "d", "p", "%", "3", "A", "%", "2", "F", "%", "2", "F", "9", ".",
    "r", "a", "r", "b", "g", ".", "m", "e", ":", "2", "7", "1", "0", "/",
    "a", "n", "n", "o", "u", "n", "c", "e", "&">>,
    \* udp%3A%2F%2FIPv6.open-internet.nl:6969/announce&
    <<"u", "d", "p", "%", "3", "A", "%", "2", "F", "%", "2", "F", "I", "P",
    "v", "6", ".", "o", "p", "e", "n", "-", "i", "n", "t", "e", "r", "n",
    "e", "t", ".", "n", "l", ":", "6", "9", "6", "9", "/", "a", "n", "n",
    "o", "u", "n", "c", "e", "&">>,
    \* udp%3A%2F%2Ftracker.internetwarriors.net:1337/announce&
    <<"u", "d", "p", "%", "3", "A", "%", "2", "F", "%", "2", "F", "t", "r",
    "a", "c", "k", "e", "r", ".", "i", "n", "t", "e", "r", "n", "e", "t",
    "w", "a", "r", "r", "i", "o", "r", "s", ".", "n", "e", "t", ":", "1",
    "3", "3", "7", "/", "a", "n", "n", "o", "u", "n", "c", "e", "&">>,
    \* udp%3A%2F%2Ftracker.opentrackr.org:1337/announce&
    <<"u", "d", "p", "%", "3", "A", "%", "2", "F", "%", "2", "F", "t", "r",
    "a", "c", "k", "e", "r", ".", "o", "p", "e", "n", "t", "r", "a", "c",
    "k", "r", ".", "o", "r", "g", ":", "1", "3", "3", "7", "/", "a", "n",
    "n", "o", "u", "n", "c", "e", "&">>,
    \* udp%3A%2F%2Fp4p.arenabg.com:1337/announce&
    <<"u", "d", "p", "%", "3", "A", "%", "2", "F", "%", "2", "F", "p", "4",
    "p", ".", "a", "r", "e", "n", "a", "b", "g", ".", "c", "o", "m", ":",
    "1", "3", "3", "7", "/", "a", "n", "n", "o", "u", "n", "c", "e", "&">>,
    \* udp%3A%2F%2Feddie4.nl:6969/announce&
    <<"u", "d", "p", "%", "3", "A", "%", "2", "F", "%", "2", "F", "e", "d",
    "d", "i", "e", "4", ".", "n", "l", ":", "6", "9", "6", "9", "/", "a",
    "n", "n", "o", "u", "n", "c", "e", "&">>,
    \* udp%3A%2F%2Fshadowshq.yi.org:6969/announce&
    <<"u", "d", "p", "%", "3", "A", "%", "2", "F", "%", "2", "F", "s", "h",
    "a", "d", "o", "w", "s", "h", "q", ".", "y", "i", ".", "o", "r", "g",
    ":", "6", "9", "6", "9", "/", "a", "n", "n", "o", "u", "n", "c", "e",
    "&">>,
    \* udp%3A%2F%2Ftracker.leechers-paradise.org:6969/announce&
    <<"u", "d", "p", "%", "3", "A", "%", "2", "F", "%", "2", "F", "t", "r",
    "a", "c", "k", "e", "r", ".", "l", "e", "e", "c", "h", "e", "r", "s",
    "-", "p", "a", "r", "a", "d", "i", "s", "e", ".", "o", "r", "g", ":",
    "6", "9", "6", "9", "/", "a", "n", "n", "o", "u", "n", "c", "e", "&">>,
    \* udp%3A%2F%2Fexplodie.org:6969/announce&
    <<"u", "d", "p", "%", "3", "A", "%", "2", "F", "%", "2", "F", "e", "x",
    "p", "l", "o", "d", "i", "e", ".", "o", "r", "g", ":", "6", "9", "6",
    "9", "/", "a", "n", "n", "o", "u", "n", "c", "e", "&">>,
    \* udp%3A%2F%2Ftracker.tiny-vps.com:6969/announce&
    <<"u", "d", "p", "%", "3", "A", "%", "2", "F", "%", "2", "F", "t", "r",
    "a", "c", "k", "e", "r", ".", "t", "i", "n", "y", "-", "v", "p", "s",
    ".", "c", "o", "m", ":", "6", "9", "6", "9", "/", "a", "n", "n", "o",
    "u", "n", "c", "e", "&">>,
    \* udp%3A%2F%2Finferno.demonoid.pw:3391/announce&
    <<"u", "d", "p", "%", "3", "A", "%", "2", "F", "%", "2", "F", "i", "n",
    "f", "e", "r", "n", "o", ".", "d", "e", "m", "o", "n", "o", "i", "d",
    ".", "p", "w", ":", "3", "3", "9", "1", "/", "a", "n", "n", "o", "u",
    "n", "c", "e", "&">>,
    \* udp%3A%2F%2Fipv4.tracker.harry.lu:80/announce&
    <<"u", "d", "p", "%", "3", "A", "%", "2", "F", "%", "2", "F", "i", "p",
    "v", "4", ".", "t", "r", "a", "c", "k", "e", "r", ".", "h", "a", "r",
    "r", "y", ".", "l", "u", ":", "8", "0", "/", "a", "n", "n", "o", "u",
    "n", "c", "e", "&">>,
    \* udp%3A%2F%2Fpeerfect.org:6969/announce&
    <<"u", "d", "p", "%", "3", "A", "%", "2", "F", "%", "2", "F", "p", "e",
    "e", "r", "f", "e", "c", "t", ".", "o", "r", "g", ":", "6", "9", "6",
    "9", "/", "a", "n", "n", "o", "u", "n", "c", "e", "&">>,
    \* udp%3A%2F%2Ftracker.pirateparty.gr:6969/announce&
    <<"u", "d", "p", "%", "3", "A", "%", "2", "F", "%", "2", "F", "t", "r",
    "a", "c", "k", "e", "r", ".", "p", "i", "r", "a", "t", "e", "p", "a",
    "r", "t", "y", ".", "g", "r", ":", "6", "9", "6", "9", "/", "a", "n",
    "n", "o", "u", "n", "c", "e", "&">>,
    \* udp%3A%2F%2Ftracker.vanitycore.co:6969/announce&
    <<"u", "d", "p", "%", "3", "A", "%", "2", "F", "%", "2", "F", "t", "r",
    "a", "c", "k", "e", "r", ".", "v", "a", "n", "i", "t", "y", "c", "o",
    "r", "e", ".", "c", "o", ":", "6", "9", "6", "9", "/", "a", "n", "n",
    "o", "u", "n", "c", "e", "&">>,
    \* udp%3A%2F%2Fopen.stealth.si:80/announce&
    <<"u", "d", "p", "%", "3", "A", "%", "2", "F", "%", "2", "F", "o", "p",
    "e", "n", ".", "s", "t", "e", "a", "l", "t", "h", ".", "s", "i", ":",
    "8", "0", "/", "a", "n", "n", "o", "u", "n", "c", "e", "&">>,
    \* udp%3A%2F%2Ftracker.torrent.eu.org:451&
    <<"u", "d", "p", "%", "3", "A", "%", "2", "F", "%", "2", "F", "t", "r",
    "a", "c", "k", "e", "r", ".", "t", "o", "r", "r", "e", "n", "t", ".",
    "e", "u", ".", "o", "r", "g", ":", "4", "5", "1", "&">>,
    \* udp%3A%2F%2Ftracker.zer0day.to:1337/announce&
    <<"u", "d", "p", "%", "3", "A", "%", "2", "F", "%", "2", "F", "t", "r",
    "a", "c", "k", "e", "r", ".", "z", "e", "r", "0", "d", "a", "y", ".",
    "t", "o", ":", "1", "3", "3", "7", "/", "a", "n", "n", "o", "u", "n",
    "c", "e", "&">>,
    \* udp%3A%2F%2Ftracker.open-internet.nl:6969/announce
    <<"u", "d", "p", "%", "3", "A", "%", "2", "F", "%", "2", "F", "t", "r",
    "a", "c", "k", "e", "r", ".", "o", "p", "e", "n", "-", "i", "n", "t",
    "e", "r", "n", "e", "t", ".", "n", "l", ":", "6", "9", "6", "9", "/",
    "a", "n", "n", "o", "u", "n", "c", "e">>
    >>

----------------------------------------------------------------------------
(* querystring, as _convertChunk uses it. *)

\* querystring.escape forgotten: the string as it is.
QsEscapeRaw(s) == s

\* querystring.escape: the percent-encoding of every character that is not
\* unreserved, a '%' included.
QsEscape(s) ==
    Concat([i \in 1..Len(s) |->
               IF s[i] \in Unreserved THEN <<s[i]>> ELSE PercentCode(s[i])])

\* stringifyPrimitive: a string as it is, undefined as ''.
StringifyPrimitive(v) == IF v = undefined THEN <<>> ELSE v

\* One key of the object handed to stringify: "key=value" for each of its
\* values, joined by '&'.
QsField(e) ==
    Join([j \in 1..Len(e.v) |->
             QsEscape(e.k) \o <<"=">> \o QsEscape(StringifyPrimitive(e.v[j]))],
         "&")

\* querystring.stringify(obj), obj given as its keys in insertion order, each
\* with its values (one for a scalar, any number for an array): the fields
\* joined by '&', a key with an empty array giving no field.
Stringify(obj) ==
    LET F[i \in 0..Len(obj)] ==
            IF i = 0 THEN <<>>
            ELSE LET fields == F[i - 1]
                 IN  IF obj[i].arr /\ Len(obj[i].v) = 0 THEN fields
                     ELSE fields \o (IF fields # <<>> THEN <<"&">> ELSE <<>>)
                                 \o QsField(obj[i])
    IN  F[Len(obj)]

----------------------------------------------------------------------------
(* The line parser and the magnet builder. *)

\* A template literal's ${v}: undefined prints as 'undefined'.
TemplateString(v) == IF v = undefined THEN <<"u", "n", "d", "e", "f", "i", "n", "e", "d">> ELSE v

\* line[i] with '' where the line has no such field.
AtOrEmpty(line, i) == IF i <= Len(line) THEN line[i] ELSE <<>>

\* line[i] of a JavaScript array: undefined past its end.
At(line, i) == IF i <= Len(line) THEN line[i] ELSE undefined

\* What the template literal of _convertChunk puts before the query string.
magnetPrefix == <<"$", "m", "a", "g", "n", "e", "t", ":", "?">>

\* The `urn:btih:` of the xt parameter.
urnBtih == <<"u", "r", "n", ":", "b", "t", "i", "h", ":">>

\* _convertChunk(chunk): one line of the dump to a torrent record.
ConvertChunk(chunk) ==
    LET line == Split(chunk, "|")
        torrent == [hash     |-> At(line, 1),
                    title    |-> At(line, 2),
                    category |-> At(line, 3),
                    link     |-> At(line, 4)]
        qs == Stringify(
                <<[k |-> <<"x", "t">>, arr |-> FALSE,
                   v |-> <<urnBtih \o TemplateString(torrent.hash)>>],
                  [k |-> <<"d", "n">>, arr |-> FALSE, v |-> <<torrent.title>>],
                  [k |-> <<"t", "r">>, arr |-> TRUE, v |-> trackers]>>)
    IN  [hash     |-> torrent.hash,
         title    |-> torrent.title,
         category |-> torrent.category,
         link     |-> torrent.link,
         magnet   |-> magnetPrefix \o qs]

\* No filter: every line kept.
AllLines(lines) == lines

\* The filter of _convertToTorrents: the lines that are not ''.
NonEmptyLines(lines) == SelectSeq(lines, LAMBDA line : line # <<>>)

\* _convertToTorrents(res): the dump to its records.
ConvertToTorrents(text) ==
    LET lines == NonEmptyLines(Split(text, "\n"))
    IN  [i \in 1..Len(lines) |-> ConvertChunk(lines[i])]

----------------------------------------------------------------------------
(* Construction. *)

\* The default of options.baseUrl, and another root URL a caller may give.
defaultBaseUrl == "https://www.ettv.tv/"
BaseUrls == {defaultBaseUrl, "https://mirror.test/"}

\* options.trackers as a caller gives it: no tracker, or the first and the
\* last tracker of the default list (one ending in '&', one not).
TrackerOptions == {<<>>, <<defaultTrackers[1], defaultTrackers[21]>>}

\* The calls of getDaily/getFull, numbered in the order they are made.
Calls == 1..NCalls

\* A promise not yet settled.
Pending == [state |-> "pending", value |-> <<>>, reason |-> "none"]

\* No 'end' and no 'error' yet.
Unsettled == [type |-> "none", chunks |-> 0, err |-> "none", again |-> FALSE]

\* Nothing called yet.
NothingCalled ==
    /\ op = "none"
    /\ rows = <<>>
    /\ res = <<>>
    /\ ret = <<>>
    /\ pc = [c \in Calls |-> "idle"]
    /\ href = [c \in Calls |-> ""]
    /\ data = [c \in Calls |-> <<>>]
    /\ recv = [c \in Calls |-> <<>>]
    /\ settledBy = [c \in Calls |-> Unsettled]
    /\ getP = [c \in Calls |-> Pending]
    /\ fileP = [c \in Calls |-> Pending]

\* The state after `new EttvApi(options)` with trackers given.
Init ==
    /\ baseUrl \in BaseUrls
    /\ trackers \in TrackerOptions
    /\ NothingCalled

\* The state after `new EttvApi(options)`, with trackers given or left to
\* their default.
InitConvert ==
    /\ baseUrl \in BaseUrls
    /\ trackers \in TrackerOptions \cup {defaultTrackers}
    /\ NothingCalled

----------------------------------------------------------------------------
(* Direct calls of the parser. *)

\* The fields a line is made of: '', a hash, and a title with a space that
\* spells a query-string parameter.
Fields == {<<>>, <<"a", "b", "c">>, <<"S", " ", "t", "&", "t", "r", "=", "x">>}

\* The lines a text is made of: the empty line, a full line, a short line
\* and a full line whose title spells a parameter.
SampleRows == {
    << <<>> >>,
    <<<<"a", "b", "c">>,
      <<"S", " ", "t">>,
      <<"T", "V">>,
      <<"h", "t", "t", "p", "s", ":", "/", "/", "e", ".", "t", "v", "/", "t", "/", "1">>>>,
    <<<<"a", "b", "c">>, <<"S", " ", "t">>>>,
    <<<<"0", "f">>,
      <<"S", " ", "t", "&", "t", "r", "=", "x">>,
      <<"T", "V">>,
      <<"h", "t", "t", "p", "s", ":", "/", "/", "e", ".", "t", "v", "/", "t", "/", "1">>>>}

SeqsUpTo(S, n) == UNION {[1..k -> S] : k \in 1..n}

\* The text of the lines rs, each the sequence of its fields.
TextOf(rs) == Join([i \in 1..Len(rs) |-> Join(rs[i], "|")], "\n")

\* A call _convertChunk(chunk) of a line of 1..MaxFields fields.
CallConvertChunk ==
    /\ op = "none"
    /\ \E fs \in SeqsUpTo(Fields, MaxFields) :
          /\ rows' = <<fs>>
          /\ res' = Join(fs, "|")
          /\ ret' = <<ConvertChunk(Join(fs, "|"))>>
    /\ op' = "convertChunk"
    /\ UNCHANGED <<baseUrl, trackers, fetchVars>>

\* A call _convertToTorrents(res) of a text of 1..MaxLines lines.
CallConvertToTorrents ==
    /\ op = "none"
    /\ \E rs \in SeqsUpTo(SampleRows, MaxLines) :
          /\ rows' = rs
          /\ res' = TextOf(rs)
          /\ ret' = ConvertToTorrents(TextOf(rs))
    /\ op' = "convertToTorrents"
    /\ UNCHANGED <<baseUrl, trackers, fetchVars>>

\* The caller takes the result; the client keeps nothing of the call.
Return ==
    /\ op # "none"
    /\ op' = "none"
    /\ rows' = <<>>
    /\ res' = <<>>
    /\ ret' = <<>>
    /\ UNCHANGED <<baseUrl, trackers, fetchVars>>

NextConvert == CallConvertChunk \/ CallConvertToTorrents \/ Return

SpecConvert == InitConvert /\ [][NextConvert]_vars

----------------------------------------------------------------------------
(* The fetcher. *)

\* What the gunzip stream hands to the 'data' listener: a Buffer, as a
\* sequence of bytes.  "C3" "A9" are the two bytes of U+00E9: the chunk starts
\* with the second byte of one, holds a whole one and ends after the first
\* byte of another, as chunks cut from a longer text do.
Chunks == {<<"A9", "a", "|", "C3", "A9", "\n", "C3">>}

\* The error the gunzip stream emits on a body that is not gzip.
GunzipErrors == {"incorrect header check"}

\* `data += chunk` converts the Buffer with toString(): UTF-8, each chunk
\* decoded on its own, a truncated or stray byte decoded as U+FFFD.
BufferToString(chunk) ==
    LET n == Len(chunk)
        lead(i) == chunk[i] = "C3" /\ i < n /\ chunk[i + 1] = "A9"
        char(i) == IF lead(i) THEN <<"e'">>
                   ELSE IF chunk[i] = "A9" /\ i > 1 /\ chunk[i - 1] = "C3"
                        THEN <<>>
                   ELSE IF chunk[i] \in {"C3", "A9"} THEN <<"?!">>
                   ELSE <<chunk[i]>>
    IN  Concat([i \in 1..n |-> char(i)])

\* new URL(`dumps/ettv_${file}.txt.gz`, this._baseUrl).href, for a base URL
\* that is a root URL ending in '/'.
Href(file) == baseUrl \o "dumps/ettv_" \o file \o ".txt.gz"

\* resolve(v) that settles the promise again.
ResolveAgain(p, v) == [state |-> "fulfilled", value |-> v, reason |-> "none"]

\* resolve(v) and reject(e) of a promise: the first to be called settles it,
\* every later call is ignored.
Resolve(p, v) ==
    IF p.state = "pending"
    THEN [state |-> "fulfilled", value |-> v, reason |-> "none"]
    ELSE p

Reject(p, e) ==
    IF p.state = "pending"
    THEN [state |-> "rejected", value |-> <<>>, reason |-> e]
    ELSE p

\* new Error(err): the message is the error converted to a string.
NewError(err) == "Error: " \o err

\* data += chunk, on one accumulator that every call shares.
AppendDataShared(d, c, chunk) ==
    [b \in DOMAIN d |-> d[b] \o BufferToString(chunk)]

\* data += chunk, on the accumulator of call c's own response callback.
AppendData(d, c, chunk) == [d EXCEPT ![c] = @ \o BufferToString(chunk)]

\* The first 'end' or 'error' of a stream, with the number of chunks that
\* came before it; an 'end' or 'error' after the first is only noted.
FirstOf(s, type, chunks, err) ==
    IF s.type = "none"
    THEN [type |-> type, chunks |-> chunks, err |-> err, again |-> FALSE]
    ELSE [s EXCEPT !.again = TRUE]

\* The number of chunks emitted so far, all calls together.
ChunkCount ==
    LET F[c \in 0..NCalls] == IF c = 0 THEN 0 ELSE F[c - 1] + Len(recv[c])
    IN  F[NCalls]

\* _getFile(file): the URL is built, _get issues the request and returns its
\* promise, and `.then` chains the parser on it.
GetFile(c, file) ==
    /\ pc[c] = "idle"
    /\ \A b \in Calls : b < c => pc[b] # "idle"
    /\ pc' = [pc EXCEPT ![c] = "requesting"]
    /\ href' = [href EXCEPT ![c] = Href(file)]
    /\ UNCHANGED <<baseUrl, trackers, convertVars,
                   data, recv, settledBy, getP, fileP>>

GetDaily(c) == GetFile(c, "daily")

GetFull(c) == GetFile(c, "full")

\* The response arrives: the callback of https.get sets data = '' and pipes
\* the response through gunzip.
Response(c) ==
    /\ pc[c] = "requesting"
    /\ pc' = [pc EXCEPT ![c] = "streaming"]
    /\ href' = [href EXCEPT ![c] = ""]
    /\ data' = [data EXCEPT ![c] = <<>>]
    /\ UNCHANGED <<baseUrl, trackers, convertVars,
                   recv, settledBy, getP, fileP>>

\* The request fails before any response (connection refused or reset): the
\* ClientRequest emits 'error'.  _get registers no listener on it, so the
\* event is thrown as an uncaught exception and neither resolve nor reject is
\* called.  Nothing more happens for this call.
RequestError(c) ==
    /\ pc[c] = "requesting"
    /\ pc' = [pc EXCEPT ![c] = "failed"]
    /\ href' = [href EXCEPT ![c] = ""]
    /\ UNCHANGED <<baseUrl, trackers, convertVars,
                   data, recv, settledBy, getP, fileP>>

\* gunzip 'data': data += chunk.
OnData(c, chunk) ==
    /\ pc[c] = "streaming"
    /\ ChunkCount < MaxChunks
    /\ data' = AppendData(data, c, chunk)
    /\ recv' = [recv EXCEPT ![c] = Append(@, chunk)]
    /\ UNCHANGED <<baseUrl, trackers, convertVars,
                   pc, href, settledBy, getP, fileP>>

\* gunzip 'end': resolve(data).
OnEnd(c) ==
    /\ pc[c] = "streaming"
    /\ getP' = [getP EXCEPT ![c] = Resolve(@, data[c])]
    /\ settledBy' = [settledBy EXCEPT
                        ![c] = FirstOf(@, "end", Len(recv[c]), "none")]
    /\ UNCHANGED <<baseUrl, trackers, convertVars,
                   pc, href, data, recv, fileP>>

\* gunzip 'error': reject(new Error(err)).
OnError(c, err) ==
    /\ pc[c] = "streaming"
    /\ getP' = [getP EXCEPT ![c] = Reject(@, NewError(err))]
    /\ settledBy' = [settledBy EXCEPT
                        ![c] = FirstOf(@, "error", Len(recv[c]), err)]
    /\ UNCHANGED <<baseUrl, trackers, convertVars,
                   pc, href, data, recv, fileP>>

\* The same reaction, with a parser that takes the first tracker off
\* this._trackers.
ThenFulfilledShift(c) ==
    /\ getP[c].state = "fulfilled"
    /\ fileP[c].state = "pending"
    /\ fileP' = [fileP EXCEPT
                    ![c] = Resolve(@, ConvertToTorrents(getP[c].value))]
    /\ trackers' = IF trackers = <<>> THEN trackers ELSE Tail(trackers)
    /\ UNCHANGED <<baseUrl, convertVars,
                   pc, href, data, recv, settledBy, getP>>

\* The reaction of `.then(this._convertToTorrents.bind(this))` to _get's
\* promise being fulfilled: the text is parsed and _getFile's promise is
\* fulfilled with the records.
ThenFulfilled(c) ==
    /\ getP[c].state = "fulfilled"
    /\ fileP[c].state = "pending"
    /\ fileP' = [fileP EXCEPT
                    ![c] = Resolve(@, ConvertToTorrents(getP[c].value))]
    /\ UNCHANGED <<baseUrl, trackers, convertVars,
                   pc, href, data, recv, settledBy, getP>>

\* ... and to its being rejected: `.then` is given no rejection handler, so
\* _getFile's promise is rejected with the same error.
ThenRejected(c) ==
    /\ getP[c].state = "rejected"
    /\ fileP[c].state = "pending"
    /\ fileP' = [fileP EXCEPT ![c] = Reject(@, getP[c].reason)]
    /\ UNCHANGED <<baseUrl, trackers, convertVars,
                   pc, href, data, recv, settledBy, getP>>

Next ==
    \E c \in Calls :
        \/ GetDaily(c)
        \/ GetFull(c)
        \/ Response(c)
        \/ RequestError(c)
        \/ \E chunk \in Chunks : OnData(c, chunk)
        \/ OnEnd(c)
        \/ \E err \in GunzipErrors : OnError(c, err)
        \/ ThenFulfilled(c)
        \/ ThenRejected(c)

Spec == Init /\ [][Next]_vars

----------------------------------------------------------------------------
(* Reading a magnet back. *)

\* The part of a magnet after its first '?'.
QueryOf(m) ==
    LET q == CHOOSE i \in 1..Len(m) :
                 m[i] = "?" /\ \A j \in 1..(i - 1) : m[j] # "?"
    IN  SubSeq(m, q + 1, Len(m))

\* The parameters of a query string: its non-empty '&'-separated parts.
Params(q) == SelectSeq(Split(q, "&"), LAMBDA p : p # <<>>)

\* The key of a parameter: what precedes its first '='.
KeyOf(p) == Split(p, "=")[1]

\* The value of a parameter: what follows its first '='.
ValueOf(p) == SubSeq(p, Len(KeyOf(p)) + 2, Len(p))

\* Percent-decoding from position i of s on.
RECURSIVE UnescapeFrom(_, _)
UnescapeFrom(s, i) ==
    IF i > Len(s) THEN <<>>
    ELSE IF s[i] # "%" THEN <<s[i]>> \o UnescapeFrom(s, i + 1)
    ELSE LET coded == {c \in Reserved :
                          /\ i + Len(PercentCode(c)) - 1 <= Len(s)
                          /\ SubSeq(s, i, i + Len(PercentCode(c)) - 1)
                                = PercentCode(c)}
         IN  IF coded = {} THEN <<s[i]>> \o UnescapeFrom(s, i + 1)
             ELSE LET c == CHOOSE c \in coded : TRUE
                  IN  <<c>> \o UnescapeFrom(s, i + Len(PercentCode(c)))

\* querystring.unescape.
QsUnescape(s) == UnescapeFrom(s, 1)

\* The text the chunks r[1..n] of a stream make, each converted on its own.
TextOfChunks(r, n) == Concat([i \in 1..n |-> BufferToString(r[i])])

----------------------------------------------------------------------------
(* The claims. *)

\* C1: a text of exactly one line H|T|C|L gives exactly one record with
\* hash = H, title = T, category = C, link = L and a non-empty magnet that
\* contains the substring 'urn:btih:H'.
C1_OneLineOneRecord ==
    (op = "convertToTorrents" /\ Len(rows) = 1 /\ Len(rows[1]) = 4) =>
        /\ Len(ret) = 1
        /\ ret[1].hash = rows[1][1]
        /\ ret[1].title = rows[1][2]
        /\ ret[1].category = rows[1][3]
        /\ ret[1].link = rows[1][4]
        /\ ret[1].magnet # <<>>
        /\ Includes(ret[1].magnet, urnBtih \o rows[1][1])

\* C2: every magnet built by _convertChunk starts with the literal token
\* 'magnet:?'.
C2_MagnetPrefix ==
    \A i \in 1..Len(ret) : StartsWith(ret[i].magnet, <<"m", "a", "g", "n", "e", "t", ":", "?">>)

\* C3: for a tracker list of length N the query string of every magnet has
\* its parameters in the order xt, dn, tr...: one xt, one dn and N times the
\* key tr, the i-th of them carrying the i-th tracker; with N = 0 no tr.
C3_QueryOrder ==
    \A i \in 1..Len(ret) :
        LET q == QueryOf(ret[i].magnet)
            ps == Params(q)
            N == Len(trackers)
        IN  /\ Len(ps) = N + 2
            /\ KeyOf(ps[1]) = <<"x", "t">>
            /\ KeyOf(ps[2]) = <<"d", "n">>
            /\ \A j \in 1..N :
                  /\ KeyOf(ps[2 + j]) = <<"t", "r">>
                  /\ QsUnescape(ValueOf(ps[2 + j])) = trackers[j]
            /\ Occurrences(q, <<"t", "r", "=">>) = N

\* A record built with the 21 default trackers from a line whose title
\* spells '&tr='.
C3_Witness ==
    /\ op = "convertChunk"
    /\ Len(trackers) = 21
    /\ Len(rows[1]) >= 2
    /\ Includes(rows[1][2], <<"&", "t", "r", "=">>)
    /\ Len(ret) = 1

\* C4: the value of the i-th tr parameter of a magnet is the i-th tracker
\* string, character for character, with no percent-encoding applied to it.
C4_TrackersVerbatim ==
    \A i \in 1..Len(ret) :
        LET ps == Params(QueryOf(ret[i].magnet))
        IN  \A j \in 1..Len(trackers) : ValueOf(ps[2 + j]) = trackers[j]

\* C5: when the request of getDaily() or getFull() fails at the network
\* level, the promise is rejected: once the request has failed and its
\* 'error' event has been handled, the promise of _get is rejected.
C5_RequestErrorRejects ==
    \A c \in Calls : pc[c] = "failed" => getP[c].state = "rejected"

C7_CallsIndependent ==
    \A c \in Calls :
        /\ pc[c] = "streaming" => data[c] = TextOfChunks(recv[c], Len(recv[c]))
        /\ pc[c] # "streaming" => data[c] = <<>> /\ fileP[c] = Pending
        /\ fileP[c].state = "fulfilled" =>
              /\ settledBy[c].type = "end"
              /\ fileP[c].value =
                    ConvertToTorrents(
                        TextOfChunks(recv[c], settledBy[c].chunks))
        /\ fileP[c].state = "rejected" =>
              /\ settledBy[c].type = "error"
              /\ fileP[c].reason = NewError(settledBy[c].err)

\* Two calls in flight together, one fulfilled with the records of its own
\* chunk, the other rejected after a chunk of its own.
C7_Witness ==
    \E c, d \in Calls :
        /\ c # d
        /\ fileP[c].state = "fulfilled"
        /\ Len(recv[c]) = 1
        /\ Len(fileP[c].value) = 2
        /\ Len(recv[d]) = 1
        /\ fileP[d].state = "rejected"

\* C8: _convertToTorrents gives one record per non-empty line, in the order
\* of the lines and with duplicates kept; empty lines give no record, so a
\* text of blank lines only gives no record at all.
C8_OneRecordPerLine ==
    op = "convertToTorrents" =>
        LET lines == SelectSeq(rows, LAMBDA r : r # << <<>> >>)
        IN  /\ Len(ret) = Len(lines)
            /\ \A i \in 1..Len(lines) :
                  /\ ret[i] = ConvertChunk(Join(lines[i], "|"))
                  /\ ret[i].hash = lines[i][1]

\* A text of a line, an empty line and the same line again, parsed to two
\* equal records.
C8_Witness ==
    /\ op = "convertToTorrents"
    /\ Len(rows) = 3
    /\ rows[1] # << <<>> >>
    /\ rows[2] = << <<>> >>
    /\ rows[3] = rows[1]
    /\ Len(ret) = 2
    /\ ret[1] = ret[2]

\* C9: a line of k fields never raises: hash, title, category and link take
\* the first min(k, 4) fields in order, the others are undefined; the fields
\* past the fourth change nothing of the record; and the record has a magnet.
C9_MalformedLines ==
    op = "convertChunk" =>
        LET f == rows[1]
            k == Len(f)
            t == ret[1]
            field(i) == IF i <= k THEN f[i] ELSE undefined
        IN  /\ Len(ret) = 1
            /\ t.hash = field(1)
            /\ t.title = field(2)
            /\ t.category = field(3)
            /\ t.link = field(4)
            /\ t.magnet # undefined
            /\ t.magnet # <<>>
            /\ k > 4 => t = ConvertChunk(Join(SubSeq(f, 1, 4), "|"))

\* The line 'abc|<title>': a record with hash and title, and neither
\* category nor link.
C9_Witness ==
    /\ op = "convertChunk"
    /\ Len(rows[1]) = 2
    /\ ret[1].hash = <<"a", "b", "c">>
    /\ ret[1].title # <<>>
    /\ ret[1].category = undefined
    /\ ret[1].link = undefined

\* Two fulfilled calls that got the same text were given the same records.
SameTextSameRecords ==
    \A c, d \in Calls :
        (/\ fileP[c].state = "fulfilled"
         /\ fileP[d].state = "fulfilled"
         /\ getP[c].value = getP[d].value) => fileP[c].value = fileP[d].value

\* C10: no step of any call changes the client's base URL or its tracker
\* list, and parsing the same text twice on one client gives the same
\* records.
C10_ConfigurationImmutable ==
    /\ [][baseUrl' = baseUrl /\ trackers' = trackers]_vars
    /\ []SameTextSameRecords

\* Two calls on a client with trackers, both fulfilled with the records of
\* the same non-empty text.
C10_Witness ==
    \E c, d \in Calls :
        /\ c # d
        /\ trackers # <<>>
        /\ fileP[c].state = "fulfilled"
        /\ fileP[d].state = "fulfilled"
        /\ getP[c].value = getP[d].value
        /\ Len(fileP[c].value) >= 1

====
